---- MODULE Spec2Model ----
(***************************************************************************)
(* Model of fheyen/midi-chords: the App component's tracking of the        *)
(* currently held notes (App.addCurrentNote / App.removeCurrentNote /      *)
(* App.render) and the keyboard drawn by PianoKeyboard.render.             *)
(*                                                                         *)
(* A JavaScript Map is an insertion-ordered list of [key, value] entries   *)
(* with unique keys; it is modelled as a sequence of entry records. Map    *)
(* objects live in a heap (a sequence of Map contents) and are named by    *)
(* their index, so that aliasing and copying are distinguishable.          *)
(*                                                                         *)
(* React's setState does not assign this.state: it queues a partial state  *)
(* that React merges into this.state when it processes the queue, and then *)
(* calls render(). The queue is `pending`; processing it is Flush.         *)
(*                                                                         *)
(* The statistics utilities (lib/utils/StatisticsUtils.js), the canvas     *)
(* helpers (lib/ui/Graphics.js) and the keyboard layout are functions of   *)
(* their arguments: UtilSpec starts with one call and its arguments chosen *)
(* and has one action for each function, which runs the call.              *)
(***************************************************************************)
EXTENDS Integers, Sequences, FiniteSets

\* ---------------------------------------------------------------- bounds
\* Note events delivered in one run.
MaxEvents == 3

\* Pitches the MIDI transport delivers: a natural key, a sharp key and a
\* value outside the MIDI range 0..127.
Pitches == {60, 61, 128}
Velocities == {100}
\* Pixel sizes of the keyboard's drawing area.
Widths == {1040}
Heights == {1, 540}

\* The longest sample array a statistics utility is called with.
MaxSamples == 5

\* The samples: 1..5 and one far value.
SampleValues == {1, 2, 3, 4, 5, 100}

\* The arrays over S of length at most n.
SeqsUpTo(S, n) == UNION {[1..k -> S] : k \in 0..n}

\* The longest sequence of evaluation points, and of samples, a density
\* estimator is called with.
MaxPoints == 2

KdePoints == {0, 1, 3}

KdeSamples == {0, 2}

\* The kernels a density estimator is built with: kernelEpanechnikov(1),
\* kernelEpanechnikov(2) and a caller's one-sided kernel v => v >= 0 ? 1 : 0.
Kernels == {[kind |-> "epanechnikov", k |-> 1],
            [kind |-> "epanechnikov", k |-> 2],
            [kind |-> "step", k |-> 1]}

\* The largest radius or size, in pixels and of either sign, a drawing
\* helper is called with.
MaxRadius == 2

Positions == {0, 10}

\* The shapes of drawDrumNoteShape and one it does not know.
Shapes == {"triangle", "<>", "x", "o", "ostroke", "xstroke", "square"}

\* The widest keyboard, in pixels, PianoKeyboard.render is called with on
\* its own; it is also called with the widths of the App.
MaxWidth == 3

\* ------------------------------------------------------- JavaScript Map
MapKeys(m) == {m[i].key : i \in 1..Len(m)}

MapHas(m, k) == \E i \in 1..Len(m) : m[i].key = k

\* A list that is pushed to instead of a keyed collection: set never replaces.
MapSet_AlwaysAppend(m, k, v) == Append(m, [key |-> k, value |-> v])

\* Map.prototype.set: an existing key keeps its position and gets the new
\* value, a new key is appended.
MapSet(m, k, v) ==
    IF MapHas(m, k)
    THEN [i \in 1..Len(m) |-> IF m[i].key = k THEN [key |-> k, value |-> v] ELSE m[i]]
    ELSE Append(m, [key |-> k, value |-> v])

\* Removal by position, splice(indexOf(k), 1): an absent key has index -1 and
\* the last entry goes.
MapDelete_SpliceIndexOf(m, k) ==
    IF MapHas(m, k) THEN SelectSeq(m, LAMBDA e : e.key # k)
    ELSE SubSeq(m, 1, Len(m) - 1)

\* Map.prototype.delete: removes the entry of the key if there is one.
MapDelete(m, k) == SelectSeq(m, LAMBDA e : e.key # k)

\* Map.prototype.values, in insertion order.
MapValues(m) == [i \in 1..Len(m) |-> m[i].value]

\* new Map(iterable): sets every entry of the iterable, in order, on an
\* empty Map.
RECURSIVE MapFromEntries(_, _)
MapFromEntries(entries, acc) ==
    IF entries = <<>> THEN acc
    ELSE MapFromEntries(Tail(entries), MapSet(acc, Head(entries).key, Head(entries).value))

NewMap(m) == MapFromEntries(m, <<>>)

\* ---------------------------------------------------------------- state
VARIABLES
    heap,          \* the Map objects allocated so far: index |-> entries
    currentNotes,  \* this.state.currentNotes: a reference into heap
    pending,       \* queued setState({currentNotes: ref}) updates, oldest first
    clock,         \* number of note events delivered; the next event's timestamp
    notes,         \* the array App.render passed to getCHordType2
    propNotes,     \* the currentNotes prop App.render gave to PianoKeyboard
    width,         \* PianoKeyboard's this.state.width, in pixels
    height,        \* PianoKeyboard's this.state.height, in pixels
    keyboard,      \* what PianoKeyboard.render drew last
    lastEvent,     \* history: pitch |-> kind of its most recent event
    overlapped,    \* history: some event was delivered while a setState was pending
    last,          \* history: the most recent handler call
    prev,          \* history: the handler call before it
    published,     \* history: reference given as a prop |-> its contents then
    fn,            \* the utility function called, "none" in the running App
    args,          \* its arguments other than the sample array
    pc,            \* "ready" before the call, then "returned" or "threw"
    data,          \* the caller's sample array, as it is now
    given,         \* history: the caller's sample array when the call was made
    ret,           \* the value the call returned
    ctx,           \* the commands the call issued on the canvas context
    console        \* the messages the call logged

appVars == <<heap, currentNotes, pending, clock, notes, propNotes,
             lastEvent, overlapped, last, prev, published>>

utilVars == <<fn, args, pc, data, given, ret, ctx, console>>

vars == <<heap, currentNotes, pending, clock, notes, propNotes,
          width, height, keyboard, lastEvent, overlapped, last, prev, published,
          fn, args, pc, data, given, ret, ctx, console>>

NoCall == [op |-> "none", pitch |-> 0, note |-> <<>>, read |-> <<>>, wrote |-> <<>>]

\* ------------------------------------------------------------ App.render
\* The comparator with its operands exchanged.
Compare_Descending(a, b) == b.pitch - a.pitch

\* Array.prototype.sort is stable; the comparator is (a, b) => a.pitch - b.pitch.
Compare(a, b) == a.pitch - b.pitch

RECURSIVE InsertSorted(_, _)
InsertSorted(sorted, x) ==
    IF sorted = <<>> THEN <<x>>
    ELSE IF Compare(x, sorted[Len(sorted)]) >= 0 THEN Append(sorted, x)
    ELSE Append(InsertSorted(SubSeq(sorted, 1, Len(sorted) - 1), x), sorted[Len(sorted)])

RECURSIVE SortFrom(_, _)
SortFrom(arr, acc) ==
    IF arr = <<>> THEN acc ELSE SortFrom(Tail(arr), InsertSorted(acc, Head(arr)))

Sort(arr) == SortFrom(arr, <<>>)

\* const notes = Array.from(s.currentNotes.values()).sort(...)
ChordNotes(m) == Sort(MapValues(m))

\* -------------------------------------------------- PianoKeyboard.render
\* Lengths are exact rationals, kept as integers: a horizontal length is a
\* multiple of 1/(20 * number of natural keys) pixel and a vertical length a
\* multiple of 1/50 pixel, so that width / whiteNotes.length, 0.9, 0.5, 0.02,
\* 0.98 and 0.6 are all whole numbers of units.
XUnitsPerKeyWidth == 20
YUnitsPerPixel == 50

\* Piano.pianoPitchRange.get(88) of musicvis-lib.
MinPitch == 21
MaxPitch == 108

\* JavaScript's %: the result has the sign of the dividend.
JsRem(a, n) == IF a >= 0 THEN a % n ELSE 0 - ((0 - a) % n)

\* Midi.isSharp of musicvis-lib.
isSharp(pitch) == JsRem(pitch, 12) \in {1, 3, 6, 8, 10}

\* range(minPitch, maxPitch + 1).filter(d => !Midi.isSharp(d))
whiteNotes == SelectSeq([i \in 1..(MaxPitch + 1 - MinPitch) |-> MinPitch + i - 1],
                        LAMBDA d : ~isSharp(d))

\* keyWidth = width / whiteNotes.length, in horizontal units.
keyWidth(w) == w * XUnitsPerKeyWidth
\* blackKeyWidth = keyWidth * 0.9
blackKeyWidth(w) == (keyWidth(w) * 9) \div 10

\* The range test with its upper end exclusive.
Skipped_UpperExclusive(pitch) == pitch < MinPitch \/ pitch >= MaxPitch

\* if (pitch < minPitch || pitch > maxPitch) continue;
Skipped(pitch) == pitch < MinPitch \/ pitch > MaxPitch

\* A sharp key put with its right edge on the cursor.
KeyX_RightAligned(black, currentX, w) == IF black THEN currentX - blackKeyWidth(w) ELSE currentX

KeyX(black, currentX, w) == IF black THEN currentX - (blackKeyWidth(w) \div 2) ELSE currentX
\* The two branches of y exchanged.
KeyY_BranchesSwapped(black, h) == IF black THEN h * 1 ELSE 0

KeyY(black, h) == IF black THEN 0 ELSE h * 1
KeyW(black, w) == IF black THEN blackKeyWidth(w) ELSE keyWidth(w)
KeyH(black, h) == IF black THEN h * 30 ELSE h * 49

\* The highlight applied to natural keys only.
KeyColor_NaturalsOnly(black, pressed) ==
    IF pressed /\ ~black THEN "steelblue" ELSE IF black THEN "#222" ELSE "#f8f8f8"

\* The fill of a key and the fill of its label.
KeyColor(black, pressed) ==
    IF pressed THEN "steelblue" ELSE IF black THEN "#222" ELSE "#f8f8f8"
KeyTextColor(black, pressed) ==
    IF pressed THEN "#111" ELSE IF black THEN "#eee" ELSE "#222"

\* The passes of the two nested loops, in order:
\* for (let octave = -1; octave < 11; octave++) for (let key = 0; key < 12; key++),
\* each with const pitch = octave * 12 + key.
LoopPasses ==
    [i \in 1..(12 * 12) |->
        LET octave == ((i - 1) \div 12) - 1
            key == (i - 1) % 12
        IN  [octave |-> octave, key |-> key, pitch |-> octave * 12 + key]]

\* The passes that reach the loop body below the `continue`.
PlacedPasses == SelectSeq(LoopPasses, LAMBDA s : ~Skipped(s.pitch))

\* How many natural keys the passes before the i-th placed pass have placed
\* (\o <<>> keeps the sequence evaluated).
NaturalsBefore ==
    [i \in 1..Len(PlacedPasses) |->
        Cardinality({j \in 1..(i - 1) : ~isSharp(PlacedPasses[j].pitch)})] \o <<>>

\* currentX when the i-th placed pass starts: it began at 0 and every earlier
\* pass that placed a natural key did currentX += keyWidth.
currentXAt(i, w) == keyWidth(w) * NaturalsBefore[i]

\* The rect and the label one pass builds, with the octave marker it records.
PlaceKey(pass, currentX, m, w, h) ==
    LET pitch == pass.pitch
        black == isSharp(pitch)
        x == KeyX(black, currentX, w)
        kw == KeyW(black, w)
        kh == KeyH(black, h)
        pressed == MapHas(m, pitch)
    IN  [pitch |-> pitch, black |-> black, octave |-> pass.octave,
         marker |-> (JsRem(pitch, 12) = 0),
         rect |-> [pitch |-> pitch, x |-> x, y |-> KeyY(black, h), w |-> kw,
                   h |-> kh, fill |-> KeyColor(black, pressed)],
         label |-> [pitch |-> pitch, fill |-> KeyTextColor(black, pressed),
                    x |-> x + (kw \div 2),
                    y |-> IF black THEN kh - 18 * YUnitsPerPixel
                                   ELSE kh - 10 * YUnitsPerPixel]]

\* PianoKeyboard.render with props.currentNotes = m and state width w, height h:
\* the whiteKeys, blackKeys, labels and octaveMarkerPositions arrays it fills.
KeyboardRender(m, w, h) ==
    LET placed == PlacedPasses
        done == [i \in 1..Len(placed) |->
                    PlaceKey(placed[i], currentXAt(i, w), m, w, h)] \o <<>>
        RectsOf(sel) == [i \in 1..Len(sel) |-> sel[i].rect]
        whites == SelectSeq(done, LAMBDA d : ~d.black)
        blacks == SelectSeq(done, LAMBDA d : d.black)
        marks == SelectSeq(done, LAMBDA d : d.marker)
    IN  [whiteKeys |-> RectsOf(whites),
         blackKeys |-> RectsOf(blacks),
         labels |-> [i \in 1..Len(done) |-> done[i].label],
         octaveMarkerPositions |->
             [i \in 1..Len(marks) |-> [octave |-> marks[i].octave, x |-> marks[i].rect.x]]]

\* ------------------------------------------------------- event handlers
\* No copy: const newMap = this.state.currentNotes.
NewMapRef_Alias(h, ref) == ref

\* The Map object that `new Map(this.state.currentNotes)` yields: a fresh one.
NewMapRef(h, ref) == Len(h) + 1

HeapStore(h, r, m) == IF r = Len(h) + 1 THEN Append(h, m) ELSE [h EXCEPT ![r] = m]

Record(op, pitch, note, read, wrote) ==
    /\ prev' = last
    /\ last' = [op |-> op, pitch |-> pitch, note |-> note, read |-> read, wrote |-> wrote]
    /\ lastEvent' = [lastEvent EXCEPT ![pitch] = op]
    /\ overlapped' = (overlapped \/ pending # <<>>)
    /\ clock' = clock + 1

addCurrentNote(note) ==
    LET read == heap[currentNotes]
        r == NewMapRef(heap, currentNotes)
        newMap == MapSet(NewMap(read), note.pitch, note)
    IN  /\ heap' = HeapStore(heap, r, newMap)
        /\ pending' = Append(pending, r)
        /\ Record("on", note.pitch, note, read, newMap)
        /\ UNCHANGED <<currentNotes, notes, propNotes, width, height, keyboard, published>>
        /\ UNCHANGED utilVars

\* removeCurrentNote that deletes nothing.
removeCurrentNote_KeepsEntry(pitch) ==
    LET read == heap[currentNotes]
        r == NewMapRef(heap, currentNotes)
        newMap == NewMap(read)
    IN  /\ heap' = HeapStore(heap, r, newMap)
        /\ pending' = Append(pending, r)
        /\ Record("off", pitch, <<>>, read, newMap)
        /\ UNCHANGED <<currentNotes, notes, propNotes, width, height, keyboard, published>>
        /\ UNCHANGED utilVars

removeCurrentNote(pitch) ==
    LET read == heap[currentNotes]
        r == NewMapRef(heap, currentNotes)
        newMap == MapDelete(NewMap(read), pitch)
    IN  /\ heap' = HeapStore(heap, r, newMap)
        /\ pending' = Append(pending, r)
        /\ Record("off", pitch, <<>>, read, newMap)
        /\ UNCHANGED <<currentNotes, notes, propNotes, width, height, keyboard, published>>
        /\ UNCHANGED utilVars

NoteOn ==
    /\ clock < MaxEvents
    /\ \E p \in Pitches, v \in Velocities :
          addCurrentNote([pitch |-> p, velocity |-> v, timestamp |-> clock])

NoteOff ==
    /\ clock < MaxEvents
    /\ \E p \in Pitches : removeCurrentNote(p)

\* App.render with this.state.currentNotes = ref; it renders the PianoKeyboard
\* child, whose state holds width w and height h.
AppRender(ref, w, h) ==
    /\ notes' = ChordNotes(heap[ref])
    /\ propNotes' = ref
    /\ keyboard' = KeyboardRender(heap[ref], w, h)
    /\ published' = IF ref \in DOMAIN published THEN published
                    ELSE [r \in DOMAIN published \cup {ref} |->
                            IF r = ref THEN heap[ref] ELSE published[r]]

\* React processes the update queue: the partial states are merged in order,
\* so the last queued currentNotes wins, and the component renders.
Flush ==
    /\ pending # <<>>
    /\ currentNotes' = pending[Len(pending)]
    /\ pending' = <<>>
    /\ AppRender(pending[Len(pending)], width, height)
    /\ UNCHANGED <<heap, clock, width, height, lastEvent, overlapped, last, prev>>
    /\ UNCHANGED utilVars

\* App.onResize: the window size changes, the views get a new size and are
\* drawn again. React processes this update together with whatever is queued.
\* The width and height PianoKeyboard draws with are derived from viewSize by
\* its base class View; here they are the inputs of the resize.
onResize ==
    \E w \in Widths, h \in Heights :
        LET ref == IF pending = <<>> THEN currentNotes ELSE pending[Len(pending)]
        IN  /\ <<w, h>> # <<width, height>>
            /\ width' = w
            /\ height' = h
            /\ currentNotes' = ref
            /\ pending' = <<>>
            /\ AppRender(ref, w, h)
            /\ UNCHANGED <<heap, clock, lastEvent, overlapped, last, prev>>
            /\ UNCHANGED utilVars

\* -------------------------------------------------------- StatisticsUtils
\* A JavaScript value that may fail to be a number carries its kind in t.
\* The characteristics of a boxplot are held in eighths, where the quartile
\* interpolation and 1.5 * iqr of integer samples are exact.
QuantileUnit == 8

Num(n) == [t |-> "number", v |-> n]

Undefined == [t |-> "undefined"]

NaN == [t |-> "NaN"]

IsNum(a) == a.t = "number"

\* values[i], zero-based, undefined off the array
Element(values, i) ==
    IF i + 1 \in 1..Len(values) THEN Num(values[i + 1] * QuantileUnit) ELSE Undefined

JsSub(a, b) == IF IsNum(a) /\ IsNum(b) THEN Num(a.v - b.v) ELSE NaN

JsAdd(a, b) == IF IsNum(a) /\ IsNum(b) THEN Num(a.v + b.v) ELSE NaN

\* iqr * 1.5
TimesOneAndHalf(a) == IF IsNum(a) THEN Num((a.v * 3) \div 2) ELSE NaN

MathMax(a, b) ==
    IF IsNum(a) /\ IsNum(b) THEN (IF a.v >= b.v THEN a ELSE b) ELSE NaN

MathMin(a, b) ==
    IF IsNum(a) /\ IsNum(b) THEN (IF a.v <= b.v THEN a ELSE b) ELSE NaN

\* a < b, false when either side is not a number
JsLess(a, b) == IsNum(a) /\ IsNum(b) /\ a.v < b.v

\* (a, b) => a - b
CompareNumbers(a, b) == a - b

RECURSIVE InsertNumber(_, _)
InsertNumber(sorted, v) ==
    IF sorted = <<>> THEN <<v>>
    ELSE IF CompareNumbers(v, Head(sorted)) < 0 THEN <<v>> \o sorted
    ELSE <<Head(sorted)>> \o InsertNumber(Tail(sorted), v)

RECURSIVE SortNumbers(_)
SortNumbers(values) ==
    IF values = <<>> THEN <<>>
    ELSE InsertNumber(SortNumbers(SubSeq(values, 1, Len(values) - 1)),
                      values[Len(values)])

\* The caller's array after a sort that ordered a copy of it.
ArrayAfterSort_OnACopy(values) == values

\* values.sort(...) orders the array it is called on: the caller's array
ArrayAfterSort(values) == SortNumbers(values)

\* d3-array quantile(values, p) for p = quarters / 4, on sorted values:
\* linear interpolation at index (n - 1) * p
quantile(values, quarters) ==
    LET n  == Len(values)
        i4 == (n - 1) * quarters
        i0 == i4 \div 4
        v0 == values[i0 + 1]
        v1 == values[i0 + 2]
    IN  IF n = 0 THEN Undefined
        ELSE IF n < 2 THEN Num(values[1] * QuantileUnit)
        ELSE Num(v0 * QuantileUnit
                 + (v1 - v0) * (i4 % 4) * (QuantileUnit \div 4))

LowerWhisker_Unclamped(minVal, q1, iqr) == JsSub(q1, TimesOneAndHalf(iqr))

\* Math.max(minVal, q1 - iqr * 1.5)
LowerWhisker(minVal, q1, iqr) == MathMax(minVal, JsSub(q1, TimesOneAndHalf(iqr)))

\* Math.min(maxVal, q3 + iqr * 1.5)
UpperWhisker(maxVal, q3, iqr) == MathMin(maxVal, JsAdd(q3, TimesOneAndHalf(iqr)))

\* The object getBoxplotCharacteristics returns, values being the array
\* after line 9 has sorted it.
BoxplotCharacteristics(values) ==
    LET minVal == Element(values, 0)
        maxVal == Element(values, Len(values) - 1)
        q1  == quantile(values, 1)
        q2  == quantile(values, 2)
        q3  == quantile(values, 3)
        iqr == JsSub(q3, q1)
    IN  [q1 |-> q1, q2 |-> q2, q3 |-> q3,
         r0 |-> LowerWhisker(minVal, q1, iqr),
         r1 |-> UpperWhisker(maxVal, q3, iqr)]

getBoxplotCharacteristics ==
    /\ fn = "getBoxplotCharacteristics"
    /\ pc = "ready"
    /\ data' = ArrayAfterSort(data)
    /\ ret' = BoxplotCharacteristics(data')
    /\ pc' = "returned"
    /\ UNCHANGED <<appVars, width, height, keyboard, fn, args, given, ctx, console>>

\* kernelEpanechnikov(k)(v), in units of 1 / (4 k^3):
\* 0.75 * (1 - (v/k)^2) / k = 3 * (k^2 - v^2) / (4 k^3)
kernelEpanechnikov(k, v) ==
    IF -k <= v /\ v <= k THEN 3 * (k * k - v * v) ELSE 0

\* kernel(v)
ApplyKernel(kernel, v) ==
    IF kernel.kind = "epanechnikov" THEN kernelEpanechnikov(kernel.k, v)
    ELSE IF v >= 0 THEN 1 ELSE 0

KernelArgument_Swapped(x, v) == v - x

\* x - v
KernelArgument(x, v) == x - v

\* The sum d3-array mean(V, v => kernel(x - v)) accumulates.
RECURSIVE SumOfKernel(_, _, _)
SumOfKernel(kernel, x, V) ==
    IF V = <<>> THEN 0
    ELSE ApplyKernel(kernel, KernelArgument(x, Head(V))) + SumOfKernel(kernel, x, Tail(V))

\* d3-array mean(V, v => kernel(x - v)): the sum over the count, kept as a
\* fraction; undefined when V has no element
mean(kernel, x, V) ==
    IF Len(V) = 0 THEN Undefined
    ELSE [t |-> "number", num |-> SumOfKernel(kernel, x, V), den |-> Len(V)]

\* X.map(x => [x, mean(V, v => kernel(x - v))])
DensityEstimate(kernel, X, V) ==
    [i \in 1..Len(X) |-> <<X[i], mean(kernel, X[i], V)>>]

\* kernelDensityEstimator(kernel, X)(V)
kernelDensityEstimator ==
    /\ fn = "kernelDensityEstimator"
    /\ pc = "ready"
    /\ ret' = DensityEstimate(args.kernel, args.X, data)
    /\ pc' = "returned"
    /\ UNCHANGED <<appVars, width, height, keyboard, fn, args, data, given, ctx, console>>

\* ---------------------------------------------------------------- Graphics
\* Lengths on the canvas are in fifths of a pixel, where size * 0.4 is exact.
DrawUnit == 5

\* One call of a method of the context, or one assignment to a property of it.
Cmd(op, a) == [op |-> op, a |-> a]

\* What a run of drawing code did: the commands it issued on the context,
\* what it logged, and whether it ended in an exception.
Drew(cmds) == [cmds |-> cmds, log |-> <<>>, threw |-> FALSE]

Logged(level, about) ==
    [cmds |-> <<>>, log |-> <<[level |-> level, about |-> about]>>, threw |-> FALSE]

\* a; b, where b does not run when a threw
Then(a, b) ==
    IF a.threw THEN a
    ELSE [cmds |-> a.cmds \o b.cmds, log |-> a.log \o b.log, threw |-> b.threw]

\* ctx.arc(x, y, radius, 0, 2 * Math.PI). A context that follows the HTML
\* standard throws IndexSizeError for a negative radius (strict); another
\* one may take the call.
Arc(x, y, radius, strict) ==
    [cmds |-> <<Cmd("arc", <<x, y, radius>>)>>, log |-> <<>>,
     threw |-> strict /\ radius < 0]

DrawCircle(x, y, radius, strict) ==
    Then(Drew(<<Cmd("beginPath", <<>>)>>),
    Then(Arc(x, y, radius, strict),
         Drew(<<Cmd("stroke", <<>>)>>)))

DrawFilledCircle(x, y, radius, strict) ==
    Then(IF radius < 0 THEN Logged("error", radius) ELSE Drew(<<>>),
    Then(Drew(<<Cmd("beginPath", <<>>)>>),
    Then(Arc(x, y, radius, strict),
         Drew(<<Cmd("fill", <<>>)>>))))

DrawTriangle(x, y, halfSize) ==
    Drew(<<Cmd("beginPath", <<>>),
           Cmd("moveTo", <<x - halfSize, y + halfSize>>),
           Cmd("lineTo", <<x + halfSize, y + halfSize>>),
           Cmd("lineTo", <<x, y - halfSize>>),
           Cmd("closePath", <<>>),
           Cmd("fill", <<>>)>>)

DrawDiamond(x, y, halfSize) ==
    Drew(<<Cmd("beginPath", <<>>),
           Cmd("moveTo", <<x - halfSize, y>>),
           Cmd("lineTo", <<x, y - halfSize>>),
           Cmd("lineTo", <<x + halfSize, y>>),
           Cmd("lineTo", <<x, y + halfSize>>),
           Cmd("closePath", <<>>),
           Cmd("fill", <<>>)>>)

DrawX(x, y, halfSize) ==
    Drew(<<Cmd("lineWidth", <<2>>),
           Cmd("beginPath", <<>>),
           Cmd("moveTo", <<x - halfSize, y - halfSize>>),
           Cmd("lineTo", <<x + halfSize, y + halfSize>>),
           Cmd("moveTo", <<x - halfSize, y + halfSize>>),
           Cmd("lineTo", <<x + halfSize, y - halfSize>>),
           Cmd("stroke", <<>>),
           Cmd("lineWidth", <<1>>)>>)

\* x, y in fifths of a pixel, size in pixels: halfSize = size * 0.4
DrawDrumNoteShape(shape, x, y, size, strict) ==
    LET halfSize == size * 2
    IN  CASE shape = "triangle" -> DrawTriangle(x, y, halfSize)
          [] shape = "<>" -> DrawDiamond(x, y, halfSize)
          [] shape = "x" -> DrawX(x, y, halfSize)
          [] shape = "o" -> DrawFilledCircle(x, y, halfSize, strict)
          [] shape = "ostroke" ->
                Then(DrawFilledCircle(x, y, halfSize, strict),
                     Drew(<<Cmd("lineWidth", <<2>>),
                            Cmd("beginPath", <<>>),
                            Cmd("moveTo", <<x - halfSize, y - halfSize>>),
                            Cmd("lineTo", <<x + halfSize, y + halfSize>>),
                            Cmd("stroke", <<>>),
                            Cmd("lineWidth", <<1>>)>>))
          [] shape = "xstroke" ->
                Then(DrawX(x, y, halfSize),
                     Drew(<<Cmd("lineWidth", <<3>>),
                            Cmd("beginPath", <<>>),
                            Cmd("moveTo", <<x - halfSize, y>>),
                            Cmd("lineTo", <<x + halfSize, y>>),
                            Cmd("stroke", <<>>),
                            Cmd("lineWidth", <<1>>)>>))
          [] OTHER -> Logged("warn", shape)

\* The call ends with what the drawing code did.
Finish(did) ==
    /\ ctx' = ctx \o did.cmds
    /\ console' = console \o did.log
    /\ pc' = IF did.threw THEN "threw" ELSE "returned"

drawCircle ==
    /\ fn = "drawCircle"
    /\ pc = "ready"
    /\ \E strict \in BOOLEAN :
          Finish(DrawCircle(args.x * DrawUnit, args.y * DrawUnit,
                            args.radius * DrawUnit, strict))
    /\ UNCHANGED <<appVars, width, height, keyboard, fn, args, data, given, ret>>

drawFilledCircle ==
    /\ fn = "drawFilledCircle"
    /\ pc = "ready"
    /\ \E strict \in BOOLEAN :
          Finish(DrawFilledCircle(args.x * DrawUnit, args.y * DrawUnit,
                                  args.radius * DrawUnit, strict))
    /\ UNCHANGED <<appVars, width, height, keyboard, fn, args, data, given, ret>>

drawDrumNoteShape ==
    /\ fn = "drawDrumNoteShape"
    /\ pc = "ready"
    /\ \E strict \in BOOLEAN :
          Finish(DrawDrumNoteShape(args.shape, args.x * DrawUnit, args.y * DrawUnit,
                                   args.size, strict))
    /\ UNCHANGED <<appVars, width, height, keyboard, fn, args, data, given, ret>>

\* x(a), the caller's scale: linear through the origin, factor pixels for
\* one unit of the samples
Scale(factor, a) == IF IsNum(a) THEN Num(factor * a.v) ELSE NaN

\* A length in pixels, in the eighths the positions are held in.
Pixels(n) == Num(n * QuantileUnit)

\* data.filter(d => d < r0 || d > r1)
Outliers(values, r0, r1) ==
    SelectSeq(values, LAMBDA d : \/ JsLess(Num(d * QuantileUnit), r0)
                                \/ JsLess(r1, Num(d * QuantileUnit)))

\* The commands of drawBoxplot after line 118, which left the characteristics
\* in c and the caller's array as values. Horizontal positions and widths are
\* numbers in eighths of a pixel, vertical ones integers in pixels
\* (plotHeight is even).
DrawBoxplot(c, values, a) ==
    LET left  == Pixels(a.marginLeft)
        q1Pos == JsAdd(left, Scale(a.x, c.q1))
        q2Pos == JsAdd(left, Scale(a.x, c.q2))
        q3Pos == JsAdd(left, Scale(a.x, c.q3))
        r0Pos == JsAdd(left, Scale(a.x, c.r0))
        r1Pos == JsAdd(left, Scale(a.x, c.r1))
        yCenter == a.yPos + a.plotHeight \div 2
        outliers == IF a.drawOutliers THEN Outliers(values, c.r0, c.r1) ELSE <<>>
    IN  <<Cmd("fillStyle", <<a.fillBox>>),
          Cmd("fillRect", <<q1Pos, a.yPos, JsSub(JsSub(q2Pos, q1Pos), Pixels(1)), a.plotHeight>>),
          Cmd("fillRect", <<JsAdd(q2Pos, Pixels(1)), a.yPos,
                            JsSub(JsSub(q3Pos, q2Pos), Pixels(1)), a.plotHeight>>),
          Cmd("fillStyle", <<a.fillWhisk>>),
          Cmd("fillRect", <<r0Pos, a.yPos, Pixels(1), a.plotHeight>>),
          Cmd("fillRect", <<r0Pos, yCenter, JsSub(q1Pos, r0Pos), 1>>),
          Cmd("fillRect", <<r1Pos, a.yPos, Pixels(1), a.plotHeight>>),
          Cmd("fillRect", <<q3Pos, yCenter, JsSub(r1Pos, q3Pos), 1>>)>>
        \o [i \in 1..Len(outliers) |->
               Cmd("fillRect", <<JsAdd(left, Scale(a.x, Num(outliers[i] * QuantileUnit))),
                                 yCenter, Pixels(2), 2>>)]

drawBoxplot ==
    /\ fn = "drawBoxplot"
    /\ pc = "ready"
    /\ data' = ArrayAfterSort(data)
    /\ ctx' = ctx \o DrawBoxplot(BoxplotCharacteristics(data'), data', args)
    /\ pc' = "returned"
    /\ UNCHANGED <<appVars, width, height, keyboard, fn, args, given, ret, console>>

\* ------------------------------------------------- PianoKeyboard, called
\* The currentNotes a keyboard is given: no key held, a natural key held, a
\* sharp key and a natural key held.
HeldNote(p) == [pitch |-> p, velocity |-> 100, timestamp |-> 0]

KeyboardMaps == {<<>>,
                 MapSet(<<>>, 60, HeldNote(60)),
                 MapSet(MapSet(<<>>, 61, HeldNote(61)), 60, HeldNote(60))}

\* PianoKeyboard.render with the props currentNotes, width and height.
render ==
    /\ fn = "render"
    /\ pc = "ready"
    /\ keyboard' = KeyboardRender(args.currentNotes, width, height)
    /\ pc' = "returned"
    /\ UNCHANGED <<appVars, width, height, fn, args, data, given, ret, ctx, console>>

\* -------------------------------------------------------- specification
\* The App after its constructor.
AppInit ==
    /\ heap = << <<>> >>
    /\ currentNotes = 1
    /\ pending = <<>>
    /\ clock = 0
    /\ notes = <<>>
    /\ propNotes = 1
    /\ lastEvent = [p \in Pitches |-> "none"]
    /\ overlapped = FALSE
    /\ last = NoCall
    /\ prev = NoCall
    /\ published = [r \in {1} |-> <<>>]

\* No utility function is being called.
NoUtilCall ==
    /\ fn = "none"
    /\ args = <<>>
    /\ pc = "ready"
    /\ data = <<>>
    /\ given = <<>>
    /\ ret = <<>>
    /\ ctx = <<>>
    /\ console = <<>>

Init ==
    /\ AppInit
    /\ width \in Widths
    /\ height \in Heights
    /\ keyboard = KeyboardRender(<<>>, width, height)
    /\ NoUtilCall

Next == NoteOn \/ NoteOff \/ Flush \/ onResize

Spec == Init /\ [][Next]_vars

\* One call of a utility function, its arguments chosen.
UtilInit ==
    /\ AppInit
    /\ pc = "ready"
    /\ ret = <<>>
    /\ ctx = <<>>
    /\ console = <<>>
    /\ keyboard = <<>>
    /\ \/ /\ fn = "getBoxplotCharacteristics"
          /\ data \in SeqsUpTo(SampleValues, MaxSamples)
          /\ args = <<>>
          /\ width = 0
          /\ height = 0
       \/ /\ fn \in {"drawCircle", "drawFilledCircle"}
          /\ args \in [x : Positions, y : Positions, radius : -MaxRadius..MaxRadius]
          /\ data = <<>>
          /\ width = 0
          /\ height = 0
       \/ /\ fn = "drawDrumNoteShape"
          /\ args \in [shape : Shapes, x : Positions, y : Positions,
                        size : -MaxRadius..MaxRadius]
          /\ data = <<>>
          /\ width = 0
          /\ height = 0
       \/ /\ fn = "drawBoxplot"
          /\ data \in SeqsUpTo(SampleValues, MaxSamples)
          /\ args \in [marginLeft : {10}, x : {2}, yPos : {0}, plotHeight : {20},
                        drawOutliers : BOOLEAN,
                        fillBox : {"rgba(70, 130, 180, 0.8)"}, fillWhisk : {"steelblue"}]
          /\ width = 0
          /\ height = 0
       \/ /\ fn = "render"
          /\ args \in [currentNotes : KeyboardMaps]
          /\ data = <<>>
          /\ width \in (1..MaxWidth) \cup Widths
          /\ height \in Heights
       \/ /\ fn = "kernelDensityEstimator"
          /\ args \in [kernel : Kernels, X : SeqsUpTo(KdePoints, MaxPoints)]
          /\ data \in SeqsUpTo(KdeSamples, MaxPoints)
          /\ width = 0
          /\ height = 0
    /\ given = data

UtilNext ==
    \/ getBoxplotCharacteristics
    \/ drawBoxplot
    \/ kernelDensityEstimator
    \/ drawCircle
    \/ drawFilledCircle
    \/ drawDrumNoteShape
    \/ render

UtilSpec == UtilInit /\ [][UtilNext]_vars

\* --------------------------------------------------------------- claims
\* The pitches whose most recent event was a note-on.
Held == {p \in Pitches : lastEvent[p] = "on"}

\* The contents of this.state.currentNotes.
Committed == heap[currentNotes]

OutOfRange(pitch) == pitch < 0 \/ pitch > 127

C2_NoLostUpdate ==
    pending = <<>> => MapKeys(Committed) = Held

\* C3: removeCurrentNote of a pitch that is not a key of currentNotes submits
\* a map with the contents it read, which are the contents of currentNotes
\* once it is processed; and the second of two successive note-offs of one
\* pitch submits the same contents as the first.
C3_RedundantNoteOffIsNoOp ==
    /\ (last.op = "off" /\ ~MapHas(last.read, last.pitch)) =>
          /\ last.wrote = last.read
          /\ pending = <<>> => Committed = last.read
    /\ (last.op = "off" /\ prev.op = "off" /\ prev.pitch = last.pitch) =>
          last.wrote = prev.wrote

\* Two successive note-offs of a pitch that is not held while another is.
C3_Witness ==
    /\ last.op = "off" /\ prev.op = "off" /\ prev.pitch = last.pitch
    /\ ~MapHas(last.read, last.pitch)
    /\ last.read # <<>>
    /\ pending = <<>>

\* C4: after addCurrentNote(note) on a pitch that was a key of currentNotes,
\* currentNotes has exactly one entry for note.pitch, its value is note, and
\* the entries of the other pitches are the ones it had, in the same order.
C4_RepeatedNoteOnOverwrites ==
    (last.op = "on" /\ MapHas(last.read, last.pitch) /\ pending = <<>>) =>
        /\ Cardinality({i \in 1..Len(Committed) : Committed[i].key = last.pitch}) = 1
        /\ \A i \in 1..Len(Committed) :
              Committed[i].key = last.pitch => Committed[i].value = last.note
        /\ SelectSeq(Committed, LAMBDA e : e.key # last.pitch)
              = SelectSeq(last.read, LAMBDA e : e.key # last.pitch)

\* A second note-on of a held pitch, with another pitch held too, has replaced
\* the earlier note-on of that pitch.
C4_Witness ==
    /\ last.op = "on" /\ MapHas(last.read, last.pitch) /\ pending = <<>>
    /\ Len(last.read) = 2
    /\ \E i \in 1..Len(last.read) :
          last.read[i].key = last.pitch /\ last.read[i].value # last.note

\* C5: a Map that was given to PianoKeyboard as the currentNotes prop keeps
\* the contents it had when it was given.
C5_PublishedSnapshotsImmutable ==
    \A r \in DOMAIN published : heap[r] = published[r]

\* An earlier, non-empty snapshot, and a current state that differs from it.
C5_Witness ==
    \E r \in DOMAIN published :
        /\ r # currentNotes
        /\ published[r] # <<>>
        /\ Committed # published[r]

\* C6: addCurrentNote with a pitch outside 0..127 leaves the contents of
\* currentNotes as they were.
C6_OutOfRangeNoteOnRejected ==
    (last.op = "on" /\ OutOfRange(last.pitch) /\ pending = <<>>) =>
        Committed = last.read

\* C7: the array App.render passes to getCHordType2 holds exactly the values
\* of state.currentNotes, one for each key, in strictly ascending pitch order.
C7_ChordNotesAscendingByPitch ==
    /\ {notes[i] : i \in 1..Len(notes)} = {Committed[i].value : i \in 1..Len(Committed)}
    /\ {notes[i].pitch : i \in 1..Len(notes)} = MapKeys(Committed)
    /\ Len(notes) = Cardinality(MapKeys(Committed))
    /\ \A i \in 1..(Len(notes) - 1) : notes[i].pitch < notes[i + 1].pitch

\* Three notes that arrived in descending pitch order.
C7_Witness ==
    /\ Len(notes) = 3
    /\ pending = <<>>
    /\ Committed[1].key > Committed[2].key
    /\ Committed[2].key > Committed[3].key

\* The key rectangles of the keyboard drawn last.
AllRects == keyboard.whiteKeys \o keyboard.blackKeys

RectPitches(rects) == {rects[i].pitch : i \in 1..Len(rects)}

\* The elements of an array of the keyboard.
Rects(rects) == {rects[i] : i \in 1..Len(rects)}

\* C8: for the range 21..108 the keyboard has one rectangle for each pitch of
\* the range and none for any other pitch: 52 natural-key rectangles, on the
\* pitches that are not sharp, and 36 sharp-key rectangles, on the sharp ones.
C8_OneRectPerPitch ==
    /\ Len(keyboard.whiteKeys) = 52
    /\ Len(keyboard.blackKeys) = 36
    /\ RectPitches(AllRects) = 21..108
    /\ Cardinality(RectPitches(AllRects)) = Len(AllRects)
    /\ \A p \in RectPitches(keyboard.whiteKeys) : (p % 12) \notin {1, 3, 6, 8, 10}
    /\ \A p \in RectPitches(keyboard.blackKeys) : (p % 12) \in {1, 3, 6, 8, 10}

\* The keyboard drawn with a natural key, a sharp key and a pitch outside the
\* range all held.
C8_Witness ==
    /\ MapKeys(heap[propNotes]) = {60, 61, 128}
    /\ pending = <<>>
    /\ Len(AllRects) > 0

\* The natural keys next to a sharp key: the pitch below and the pitch above.
Flanking(b) ==
    {keyboard.whiteKeys[i] : i \in {j \in 1..Len(keyboard.whiteKeys) :
        keyboard.whiteKeys[j].pitch \in {b.pitch - 1, b.pitch + 1}}}

BlackRects == Rects(keyboard.blackKeys)

\* C9, as stated: every sharp-key rectangle lies within the vertical span of
\* its flanking natural keys, its top edge not above theirs and its bottom
\* edge not below theirs.
C9_SharpWithinNaturalSpan ==
    \A b \in BlackRects : \A n \in Flanking(b) :
        /\ b.y >= n.y
        /\ b.y + b.h <= n.y + n.h

\* The vertical extents [top, bottom] of the rectangles of an array.
Spans(rects) == {<<rects[i].y, rects[i].y + rects[i].h>> : i \in 1..Len(rects)}

\* C9, amended: the bottom edge of every sharp-key rectangle is not below the
\* bottom edge of the natural keys, its flanking ones among them, and it is
\* inside the track 0..height; its top edge is at 0, above the natural keys'
\* top edge, which is at 0.02 * height (50 * y = height * YUnitsPerPixel).
C9_SharpBottomWithinNaturalSpan ==
    /\ \A p \in RectPitches(keyboard.blackKeys) :
          {p - 1, p + 1} \subseteq RectPitches(keyboard.whiteKeys)
    /\ \A b \in Spans(keyboard.blackKeys) : \A n \in Spans(keyboard.whiteKeys) :
          /\ b[1] = 0
          /\ b[2] <= n[2]
          /\ b[2] <= height * YUnitsPerPixel
          /\ 50 * n[1] = height * YUnitsPerPixel
          /\ b[1] < n[1]

\* The keyboard drawn 540 pixels high, a sharp key held.
C9_Witness ==
    /\ height = 540
    /\ BlackRects # {}
    /\ \E b \in BlackRects : b.fill = "steelblue" /\ b.h > 0

\* C10: a key rectangle is filled 'steelblue' exactly if its pitch is a key of
\* currentNotes; a natural key that is not held is filled '#f8f8f8' and its
\* label '#222', a sharp key that is not held is filled '#222' and its label
\* '#eee'.
C10_PressedKeysHighlighted ==
    LET blackPitches == RectPitches(keyboard.blackKeys)
        whitePitches == RectPitches(keyboard.whiteKeys)
        held == MapKeys(Committed)
    IN  /\ \A r \in Rects(keyboard.whiteKeys) \cup Rects(keyboard.blackKeys) :
              (r.fill = "steelblue") <=> (r.pitch \in held)
        /\ \A r \in Rects(keyboard.whiteKeys) :
              r.pitch \notin held => r.fill = "#f8f8f8"
        /\ \A r \in Rects(keyboard.blackKeys) :
              r.pitch \notin held => r.fill = "#222"
        /\ \A l \in Rects(keyboard.labels) :
              l.pitch \notin held =>
                  /\ l.pitch \in whitePitches => l.fill = "#222"
                  /\ l.pitch \in blackPitches => l.fill = "#eee"
        /\ RectPitches(keyboard.labels) = whitePitches \cup blackPitches

\* A sharp key is held and drawn highlighted while the natural key below it is
\* not, after an earlier note-off.
C10_Witness ==
    /\ MapHas(Committed, 61) /\ ~MapHas(Committed, 60)
    /\ lastEvent[60] = "off"
    /\ pending = <<>>
    /\ \E i \in 1..Len(keyboard.blackKeys) :
          keyboard.blackKeys[i].pitch = 61 /\ keyboard.blackKeys[i].fill = "steelblue"

\* ------------------------------------------------ claims on the utilities
Called(f) == fn = f /\ pc # "ready"

Returned(f) == fn = f /\ pc = "returned"

\* The number of samples below v, and of samples not above v.
CountBelow(samples, v) == Cardinality({i \in 1..Len(samples) : samples[i] < v})

CountUpTo(samples, v) == Cardinality({i \in 1..Len(samples) : samples[i] <= v})

\* The j-th smallest sample, j = 1..Len(samples).
OrderStatistic(samples, j) ==
    CHOOSE v \in {samples[i] : i \in 1..Len(samples)} :
        CountBelow(samples, v) < j /\ j <= CountUpTo(samples, v)

\* The quarters/4 quantile of the samples by linear interpolation between
\* the order statistics around index (n - 1) * quarters / 4, in eighths.
LinearQuantile(samples, quarters) ==
    LET n  == Len(samples)
        i4 == (n - 1) * quarters
        lo == OrderStatistic(samples, (i4 \div 4) + 1)
        hi == OrderStatistic(samples, IF (i4 \div 4) + 2 <= n THEN (i4 \div 4) + 2 ELSE n)
    IN  8 * lo + 2 * (i4 % 4) * (hi - lo)

MinSample(samples) ==
    CHOOSE v \in {samples[i] : i \in 1..Len(samples)} : \A i \in 1..Len(samples) : v <= samples[i]

MaxSample(samples) ==
    CHOOSE v \in {samples[i] : i \in 1..Len(samples)} : \A i \in 1..Len(samples) : v >= samples[i]

SameSamples(a, b) ==
    /\ Len(a) = Len(b)
    /\ \A v \in {a[i] : i \in 1..Len(a)} \cup {b[i] : i \in 1..Len(b)} :
           CountUpTo(a, v) = CountUpTo(b, v)

\* C11: for every non-empty sample array getBoxplotCharacteristics returns
\* q1, q2, q3 as the 0.25, 0.5 and 0.75 linear-interpolation quantiles of the
\* samples in ascending order, r0 = max(min, q1 - 1.5 * iqr) and
\* r1 = min(max, q3 + 1.5 * iqr); the samples 1,2,3,4,5 give 2, 3, 4 with
\* whiskers 1 and 5, and the samples 1,2,3,4,100 give an upper whisker
\* strictly below 100, which makes 100 an outlier.
C11_BoxplotCharacteristics ==
    (Returned("getBoxplotCharacteristics") /\ given # <<>>) =>
        LET q1  == LinearQuantile(given, 1)
            q2  == LinearQuantile(given, 2)
            q3  == LinearQuantile(given, 3)
            low  == q1 - (3 * (q3 - q1)) \div 2
            high == q3 + (3 * (q3 - q1)) \div 2
            lo8 == 8 * MinSample(given)
            hi8 == 8 * MaxSample(given)
        IN  /\ ret.q1 = Num(q1)
            /\ ret.q2 = Num(q2)
            /\ ret.q3 = Num(q3)
            /\ ret.r0 = Num(IF lo8 >= low THEN lo8 ELSE low)
            /\ ret.r1 = Num(IF hi8 <= high THEN hi8 ELSE high)
            /\ SameSamples(given, <<1, 2, 3, 4, 5>>) =>
                   ret = [q1 |-> Num(16), q2 |-> Num(24), q3 |-> Num(32),
                          r0 |-> Num(8), r1 |-> Num(40)]
            /\ SameSamples(given, <<1, 2, 3, 4, 100>>) =>
                   /\ ret.r1.v < 8 * 100
                   /\ \E i \in 1..Len(data) : data[i] = 100 /\ JsLess(ret.r1, Num(8 * data[i]))

C11_Witness ==
    /\ Returned("getBoxplotCharacteristics")
    /\ given = <<100, 4, 3, 2, 1>>
    /\ ret.r1 = Num(56)

\* C12: a statistics utility called with an empty sample array signals an
\* error or returns an explicit empty result; it never returns a result with
\* a field or a density that is NaN or undefined.
C12_EmptySamplesRejected ==
    (given = <<>> /\ pc # "ready") =>
        /\ fn = "getBoxplotCharacteristics" =>
              \/ pc = "threw"
              \/ /\ IsNum(ret.q1) /\ IsNum(ret.q2) /\ IsNum(ret.q3)
                 /\ IsNum(ret.r0) /\ IsNum(ret.r1)
        /\ fn = "kernelDensityEstimator" =>
              \/ pc = "threw"
              \/ \A i \in 1..Len(ret) : IsNum(ret[i][2])

\* The sum of kernel(x - samples[j]) over j = 1..n.
RECURSIVE TotalKernel(_, _, _, _)
TotalKernel(kernel, x, samples, n) ==
    IF n = 0 THEN 0
    ELSE TotalKernel(kernel, x, samples, n - 1) + ApplyKernel(kernel, x - samples[n])

\* C13: for every kernel, every sequence X of evaluation points and every
\* non-empty V, kernelDensityEstimator(kernel, X)(V) returns a sequence as
\* long as X whose i-th element is the pair of X[i] and the mean over v in V
\* of kernel(X[i] - v), the x values in the order of X.
C13_DensityIsMeanOfKernel ==
    (Returned("kernelDensityEstimator") /\ given # <<>>) =>
        /\ Len(ret) = Len(args.X)
        /\ \A i \in 1..Len(ret) :
              /\ Len(ret[i]) = 2
              /\ ret[i][1] = args.X[i]
              /\ IsNum(ret[i][2])
              /\ ret[i][2].den > 0
              /\ ret[i][2].num * Len(given)
                    = ret[i][2].den * TotalKernel(args.kernel, args.X[i], given, Len(given))

C13_Witness ==
    /\ Returned("kernelDensityEstimator")
    /\ args.kernel.kind = "step"
    /\ args.X = <<3, 0>>
    /\ given = <<0, 2>>
    /\ ret[1][2].num = 2
    /\ ret[2][2].num = 1

\* The call has a negative radius, or a negative size, among its arguments.
NegativeRadius ==
    \/ fn \in {"drawCircle", "drawFilledCircle"} /\ args.radius < 0
    \/ fn = "drawDrumNoteShape" /\ args.size < 0

\* C14: a drawing helper called with a negative radius or size (drawCircle,
\* drawFilledCircle, drawDrumNoteShape) rejects the request: it logs, and it
\* issues no beginPath, arc, fill or stroke on the context.
C14_NegativeRadiusRejected ==
    (NegativeRadius /\ pc # "ready") =>
        /\ console # <<>>
        /\ \A i \in 1..Len(ctx) :
              ctx[i].op \notin {"beginPath", "arc", "fill", "stroke"}

\* C15: the cursor advances by keyWidth = width / 52 only after a natural
\* key: the k-th natural key in ascending pitch order, k = 0..51, has left
\* edge k * keyWidth and width keyWidth, so the natural keys tile [0, width]
\* without gap or overlap; every sharp key, 0.9 * keyWidth wide, is centred
\* on the boundary between the natural key below it and the natural key
\* above it; every key rectangle lies within [0, width].
C15_NaturalKeysTileSharpKeysCentred ==
    Returned("render") =>
        LET W  == keyboard.whiteKeys
            B  == keyboard.blackKeys
            kw == keyWidth(width)
            fullWidth == width * XUnitsPerKeyWidth * Len(whiteNotes)
        IN  /\ Len(whiteNotes) = 52
            /\ Len(W) = 52
            /\ \A k \in 1..Len(W) :
                  /\ W[k].pitch = whiteNotes[k]
                  /\ W[k].x = (k - 1) * kw
                  /\ W[k].w = kw
            /\ W[1].x = 0
            /\ W[Len(W)].x + W[Len(W)].w = fullWidth
            /\ \A j \in 1..Len(B) :
                  /\ 10 * B[j].w = 9 * kw
                  /\ \E k \in 1..(Len(W) - 1) :
                        /\ W[k].pitch = B[j].pitch - 1
                        /\ W[k + 1].pitch = B[j].pitch + 1
                        /\ 2 * B[j].x + B[j].w = 2 * (W[k].x + W[k].w)
                        /\ 2 * B[j].x + B[j].w = 2 * W[k + 1].x
            /\ \A r \in Rects(W) \cup Rects(B) :
                  0 <= r.x /\ r.x + r.w <= fullWidth

\* A keyboard 3 pixels wide: keyWidth is 60 units, the first sharp key starts
\* 27 units left of the first boundary and the last natural key at 51 * 60.
C15_Witness ==
    /\ Returned("render")
    /\ width = 3
    /\ Len(keyboard.blackKeys) = 36
    /\ keyboard.blackKeys[1].x = 33
    /\ keyboard.whiteKeys[52].x = 3060

\* The rects drawBoxplot draws for the outliers: what follows the two
\* fillStyle and six fillRect commands of the box and the whiskers.
OutlierRects == SubSeq(ctx, 9, Len(ctx))

\* C16: getBoxplotCharacteristics sorts the caller's array in place: after
\* the call the array holds the same multiset of numbers as before, in
\* ascending order, and a caller that goes on with the array, as drawBoxplot
\* does when it filters the outliers, works on the reordered array.
C16_CallersArraySortedInPlace ==
    (fn \in {"getBoxplotCharacteristics", "drawBoxplot"} /\ pc = "returned") =>
        /\ SameSamples(data, given)
        /\ \A i \in 1..(Len(data) - 1) : data[i] <= data[i + 1]
        /\ (fn = "drawBoxplot" /\ args.drawOutliers) =>
              /\ \A i \in 1..(Len(OutlierRects) - 1) :
                    OutlierRects[i].a[1].v <= OutlierRects[i + 1].a[1].v
              /\ \A i \in 1..Len(OutlierRects) :
                    \E j \in 1..Len(given) :
                        OutlierRects[i].a[1].v
                            = 8 * args.marginLeft + args.x * 8 * given[j]

\* The array 5,3,3,3,1: the whiskers are both 3, and the outliers are drawn
\* for 1 first and for 5 second.
C16_Witness ==
    /\ fn = "drawBoxplot"
    /\ pc = "returned"
    /\ args.drawOutliers
    /\ given = <<5, 3, 3, 3, 1>>
    /\ data = <<1, 3, 3, 3, 5>>
    /\ Len(OutlierRects) = 2
    /\ OutlierRects[1].a[1] = Num(80 + 16)
    /\ OutlierRects[2].a[1] = Num(80 + 80)

====
